---------------------------- MODULE Spec2Model ----------------------------
\* Composite pattern file system (compositePattern_fileSystem.ts):
\* File (leaf) and Folder (composite) objects, Folder.add / Folder.remove /
\* display, and the client script that builds and prints the demo tree.
\* Proxy image viewer (proxyPattern_imageViewer.ts): ImageProxy and RealImage.
\* Flyweight game map (flyweightPattern_gameMap.ts): TreeFactory.getTree.
\* Facade file system (facadePattern_fileSystem.ts): FileSystemFacade.
\* The four samples are separate programs: each specification runs one of
\* them and leaves the state of the others as constructed.
EXTENDS Integers, Sequences, FiniteSets, TLC

\* ------------------------------------------------------------------ bounds

\* Most child entries, over all folders together, the general client creates.
MaxEntries == 3

\* Call-stack depth (nested display frames) the engine allows before it throws
\* RangeError. Every acyclic structure over the seven objects needs at most 4.
MaxStack == 4

\* ----------------------------------------------------------------- objects

\* The objects the client constructs, by the variable that holds each one.
Files == {"file1", "file2", "file3", "file4"}

Folders == {"folder1", "folder2", "rootFolder"}

Components == Files \cup Folders

\* The name each constructor call passes.
constructorName(c) ==
    CASE c = "file1" -> "file1.txt"
      [] c = "file2" -> "file2.txt"
      [] c = "file3" -> "file3.txt"
      [] c = "file4" -> "file4.txt"
      [] c = "folder1" -> "Documents"
      [] c = "folder2" -> "Images"
      [] c = "rootFolder" -> "Root"

\* The objects the general client passes to add, remove and display.
GenFolders == {"rootFolder", "folder1"}

GenComponents == {"rootFolder", "folder1", "file1", "file2"}

\* The client script's add calls, in order.
DemoScript ==
    << [folder |-> "folder1", component |-> "file1"],
       [folder |-> "folder1", component |-> "file2"],
       [folder |-> "folder1", component |-> "file4"],
       [folder |-> "folder2", component |-> "file3"],
       [folder |-> "rootFolder", component |-> "folder1"],
       [folder |-> "rootFolder", component |-> "folder2"] >>

\* ------------------------------------------------------------------- state

VARIABLES
    children,   \* children[f]: the child array of folder f
    lastCall,   \* the most recent call: [op, folder, component]
    prevCall,   \* the call before it
    before,     \* children as it was when the most recent call started
    printed,    \* the lines the most recent call wrote to the console
    status,     \* "ok", or "RangeError" once a call has thrown
    pc,         \* how many of the client script's add calls have run
    name        \* name[c]: the private name field of component c

\* The image viewer.
VARIABLES
    proxies,            \* the ImageProxy objects, in order of construction:
                        \* [filename, realImage (0 is null, else the RealImage's
                        \* place in realImages), displayed (display() calls so far)]
    realImages,         \* the RealImage objects, in order of construction:
                        \* [filename, by ("proxy" or "client")]
    loadedImagesCount,  \* RealImage.loadedImagesCount
    imageConsole        \* the console: [text, image (the RealImage that wrote it)]

\* The game map's TreeFactory.
VARIABLES
    trees,          \* the trees Map: key -> the Tree's place in treeObjects
    uniqueCount,    \* TreeFactory.uniqueCount
    treeObjects,    \* the Tree objects, in order of construction: [type, color]
    requested,      \* <<type, color>> -> the tree returned by the first getTree
                    \* call with that pair, for every pair requested so far
    requests,       \* how many getTree calls have been made
    lastTree        \* the last getTree call: [type, color, tree (returned),
                    \* isNew (a Tree was constructed), first (first call with the pair)]

\* The file system facade.
VARIABLES
    fsConsole,      \* the console, one line per entry
    fsLastCall      \* the last facade call: [op, name, from (its first console
                    \* line), number (how many calls have been made)]

compositeVars == <<children, lastCall, prevCall, before, printed, status, pc, name>>

proxyVars == <<proxies, realImages, loadedImagesCount, imageConsole>>

flyweightVars == <<trees, uniqueCount, treeObjects, requested, requests, lastTree>>

facadeVars == <<fsConsole, fsLastCall>>

vars == <<compositeVars, proxyVars, flyweightVars, facadeVars>>

\* File.getName / Folder.getName
getName(c) == name[c]

\* ----------------------------------------------------------- array methods
\* Arrays are sequences; the source's indices are 0-based, the sequences' 1-based.

\* Array.prototype.unshift in place of push: the new child goes first.
unshift(arr, x) == <<x>> \o arr

\* Array.prototype.push
push(arr, x) == Append(arr, x)

RECURSIVE indexOfFrom(_, _, _)
\* The scan of indexOf from 0-based position k upwards; strict equality on
\* objects is reference identity.
indexOfFrom(arr, x, k) ==
    IF k >= Len(arr) THEN -1
    ELSE IF arr[k + 1] = x THEN k
    ELSE indexOfFrom(arr, x, k + 1)

RECURSIVE lastIndexOfFrom(_, _, _)
\* The scan of lastIndexOf from 0-based position k downwards.
lastIndexOfFrom(arr, x, k) ==
    IF k < 0 THEN -1
    ELSE IF arr[k + 1] = x THEN k
    ELSE lastIndexOfFrom(arr, x, k - 1)

\* Array.prototype.lastIndexOf in place of indexOf.
lastIndexOf(arr, x) == lastIndexOfFrom(arr, x, Len(arr) - 1)

\* Array.prototype.indexOf
indexOf(arr, x) == indexOfFrom(arr, x, 0)

Min(a, b) == IF a < b THEN a ELSE b

Max(a, b) == IF a > b THEN a ELSE b

\* Array.prototype.splice(start, deleteCount) with no inserted items: a negative
\* start counts from the end, both arguments are clamped to the array.
spliceArray(arr, start, deleteCount) ==
    LET len == Len(arr)
        from == IF start < 0 THEN Max(len + start, 0) ELSE Min(start, len)
        count == Min(Max(deleteCount, 0), len - from)
    IN SubSeq(arr, 1, from) \o SubSeq(arr, from + count + 1, len)

\* splice(index) with the deleteCount left out: everything from index on goes.
spliceToEnd(arr, start, deleteCount) == spliceArray(arr, start, Len(arr))

\* this.children.splice(index, 1)
splice(arr, start, deleteCount) == spliceArray(arr, start, deleteCount)

\* ---------------------------------------------------------- Folder methods

\* Folder.add: the child array after add(component).
add(kids, component) == push(kids, component)

\* remove with the index test left out: splice(-1, 1) drops the last child.
removeUnguarded(kids, component) == splice(kids, indexOf(kids, component), 1)

\* remove with the test "index > 0": a child at index 0 is never removed.
removeSkipsFirst(kids, component) ==
    LET index == indexOf(kids, component)
    IN IF index > 0 THEN splice(kids, index, 1) ELSE kids

\* Folder.remove: the child array after remove(component).
remove(kids, component) ==
    LET index == indexOf(kids, component)
    IN IF index # -1 THEN splice(kids, index, 1) ELSE kids

\* ----------------------------------------------------------------- display
\* A console line is the sequence of the pieces its template concatenates:
\* the indentation (one "  " per level), the marker, the name.

\* The child indentation with nothing added.
sameIndentation(indentation) == indentation

\* indentation + "  "
childIndentation(indentation) == indentation \o <<"  ">>

\* File.display's line.
fileLine(c, indentation) == indentation \o <<"- File: ", getName(c)>>

\* The folder's line with the indentation left out of the template.
folderLineFlush(c, indentation) == <<"+ Folder: ", getName(c)>>

\* Folder.display's own line.
folderLine(c, indentation) == indentation \o <<"+ Folder: ", getName(c)>>

RECURSIVE display(_, _, _, _)
RECURSIVE forEach(_, _, _, _, _)
\* display(indentation) on component c in frame number depth, over the child
\* arrays ch: the lines written, and whether the call returned (ok) or threw
\* RangeError because the call stack was exhausted.
display(ch, c, indentation, depth) ==
    IF depth > MaxStack THEN [lines |-> <<>>, ok |-> FALSE]
    ELSE IF c \in Files THEN [lines |-> <<fileLine(c, indentation)>>, ok |-> TRUE]
    ELSE LET rest == forEach(ch, ch[c], 1, childIndentation(indentation), depth + 1)
         IN [lines |-> <<folderLine(c, indentation)>> \o rest.lines, ok |-> rest.ok]

\* this.children.forEach(child => child.display(...)) from the i-th child on;
\* a throw in one child's display ends the loop.
forEach(ch, kids, i, indentation, depth) ==
    IF i > Len(kids) THEN [lines |-> <<>>, ok |-> TRUE]
    ELSE LET first == display(ch, kids[i], indentation, depth)
         IN IF ~first.ok THEN first
            ELSE LET rest == forEach(ch, kids, i + 1, indentation, depth)
                 IN [lines |-> first.lines \o rest.lines, ok |-> rest.ok]

\* rootFolder.display(): indentation defaults to "".
displayRoot(ch, c) == display(ch, c, <<>>, 1)

\* ----------------------------------------------------------------- actions

\* The image viewer before any object is constructed.
ProxyInit ==
    /\ proxies = <<>>
    /\ realImages = <<>>
    /\ loadedImagesCount = 0
    /\ imageConsole = <<>>

\* new TreeFactory()
FlyweightInit ==
    /\ trees = <<>>
    /\ uniqueCount = 0
    /\ treeObjects = <<>>
    /\ requested = <<>>
    /\ requests = 0
    /\ lastTree = [type |-> <<>>, color |-> <<>>, tree |-> 0,
                   isNew |-> FALSE, first |-> FALSE]

\* new FileSystemFacade()
FacadeInit ==
    /\ fsConsole = <<>>
    /\ fsLastCall = [op |-> "new", name |-> "none", from |-> 1, number |-> 0]

Init ==
    /\ ProxyInit
    /\ FlyweightInit
    /\ FacadeInit
    /\ name = [c \in Components |-> constructorName(c)]
    /\ children = [f \in Folders |-> <<>>]
    /\ lastCall = [op |-> "new", folder |-> "none", component |-> "none"]
    /\ prevCall = [op |-> "new", folder |-> "none", component |-> "none"]
    /\ before = [f \in Folders |-> <<>>]
    /\ printed = <<>>
    /\ status = "ok"
    /\ pc = 0

\* f.add(c)
Add(f, c) ==
    /\ status = "ok"
    /\ children' = [children EXCEPT ![f] = add(@, c)]
    /\ lastCall' = [op |-> "add", folder |-> f, component |-> c]
    /\ prevCall' = lastCall
    /\ before' = children
    /\ printed' = <<>>
    /\ status' = "ok"
    /\ UNCHANGED name

\* f.remove(c)
Remove(f, c) ==
    /\ status = "ok"
    /\ children' = [children EXCEPT ![f] = remove(@, c)]
    /\ lastCall' = [op |-> "remove", folder |-> f, component |-> c]
    /\ prevCall' = lastCall
    /\ before' = children
    /\ printed' = <<>>
    /\ status' = "ok"
    /\ UNCHANGED name

\* display that walks the child array with shift(): the folder ends up empty.
DisplayDraining(f) ==
    /\ status = "ok"
    /\ LET out == displayRoot(children, f)
       IN /\ printed' = out.lines
          /\ status' = IF out.ok THEN "ok" ELSE "RangeError"
    /\ lastCall' = [op |-> "display", folder |-> f, component |-> "none"]
    /\ prevCall' = lastCall
    /\ before' = children
    /\ children' = [children EXCEPT ![f] = <<>>]
    /\ UNCHANGED name

\* f.display(); an uncaught RangeError ends the script.
Display(f) ==
    /\ status = "ok"
    /\ LET out == displayRoot(children, f)
       IN /\ printed' = out.lines
          /\ status' = IF out.ok THEN "ok" ELSE "RangeError"
    /\ lastCall' = [op |-> "display", folder |-> f, component |-> "none"]
    /\ prevCall' = lastCall
    /\ before' = children
    /\ UNCHANGED <<children, name>>

RECURSIVE SumLen(_, _)
SumLen(ch, S) ==
    IF S = {} THEN 0
    ELSE LET f == CHOOSE g \in S : TRUE IN Len(ch[f]) + SumLen(ch, S \ {f})

\* The number of child entries over all folders.
TotalEntries(ch) == SumLen(ch, Folders)

\* A client that calls add, remove and display in any order on its objects.
ClientAdd ==
    /\ TotalEntries(children) < MaxEntries
    /\ \E f \in GenFolders, c \in GenComponents : Add(f, c)
    /\ UNCHANGED <<pc, proxyVars, flyweightVars, facadeVars>>

ClientRemove ==
    /\ \E f \in GenFolders, c \in GenComponents : Remove(f, c)
    /\ UNCHANGED <<pc, proxyVars, flyweightVars, facadeVars>>

ClientDisplay ==
    /\ \E f \in GenFolders : Display(f)
    /\ UNCHANGED <<pc, proxyVars, flyweightVars, facadeVars>>

Next == ClientAdd \/ ClientRemove \/ ClientDisplay

Spec == Init /\ [][Next]_vars

\* The client script: its six add calls in order, then display and remove
\* calls on the tree it has built.
DemoBuild ==
    /\ pc < Len(DemoScript)
    /\ Add(DemoScript[pc + 1].folder, DemoScript[pc + 1].component)
    /\ pc' = pc + 1
    /\ UNCHANGED <<proxyVars, flyweightVars, facadeVars>>

DemoDisplay ==
    /\ pc = Len(DemoScript)
    /\ \E f \in Folders : Display(f)
    /\ UNCHANGED <<pc, proxyVars, flyweightVars, facadeVars>>

DemoRemove ==
    /\ pc = Len(DemoScript)
    /\ \E f \in Folders, c \in Components : Remove(f, c)
    /\ UNCHANGED <<pc, proxyVars, flyweightVars, facadeVars>>

DemoNext == DemoBuild \/ DemoDisplay \/ DemoRemove

DemoSpec == Init /\ [][DemoNext]_vars

\* ------------------------------------------------------------ image viewer

\* Most ImageProxy objects the client constructs.
MaxProxies == 2

\* Most display() calls the client makes on its proxies, all together.
MaxDisplays == 3

\* Most RealImage objects the client constructs itself, without a proxy.
MaxDirect == 1

\* The filenames the client passes to the constructors.
Filenames == {"photo1.jpg", "photo2.jpg"}

\* The RealImage objects, the static counter and the console, as one record.
imageHeap ==
    [realImages |-> realImages,
     loadedImagesCount |-> loadedImagesCount,
     imageConsole |-> imageConsole]

\* RealImage.loadFromDisk's line.
loadFromDisk(filename) == <<"Loading image: ", filename>>

\* The RealImage constructor with the counter increment left out.
RealImageNewUncounted(h, filename, by) ==
    [realImages |-> Append(h.realImages, [filename |-> filename, by |-> by]),
     imageConsole |-> Append(h.imageConsole,
                             [text |-> loadFromDisk(filename),
                              image |-> Len(h.realImages) + 1]),
     loadedImagesCount |-> h.loadedImagesCount]

\* new RealImage(filename): set the filename, load from disk, count the image.
\* The new object is the last of realImages.
RealImageNew(h, filename, by) ==
    [realImages |-> Append(h.realImages, [filename |-> filename, by |-> by]),
     imageConsole |-> Append(h.imageConsole,
                             [text |-> loadFromDisk(filename),
                              image |-> Len(h.realImages) + 1]),
     loadedImagesCount |-> h.loadedImagesCount + 1]

\* RealImage.display on the image at place ref.
RealImageDisplay(h, ref) ==
    [h EXCEPT !.imageConsole =
        Append(@, [text |-> <<"Displaying image: ", h.realImages[ref].filename>>,
                   image |-> ref])]

\* ImageProxy.display on proxy p, loading when load says so.
proxyDisplayWhen(h, px, p, load) ==
    LET h1 == IF load THEN RealImageNew(h, px[p].filename, "proxy") ELSE h
        ref == IF load THEN Len(h1.realImages) ELSE px[p].realImage
    IN [heap |-> RealImageDisplay(h1, ref),
        proxies |-> [px EXCEPT ![p] = [@ EXCEPT !.realImage = ref,
                                                !.displayed = @ + 1]]]

\* display with the null test left out: every call loads a new RealImage.
proxyDisplayReloading(h, px, p) == proxyDisplayWhen(h, px, p, TRUE)

\* ImageProxy.display: create the RealImage if there is none, then delegate.
proxyDisplay(h, px, p) == proxyDisplayWhen(h, px, p, px[p].realImage = 0)

\* new ImageProxy(filename)
NewImageProxy(filename) ==
    /\ Len(proxies) < MaxProxies
    /\ proxies' = Append(proxies, [filename |-> filename, realImage |-> 0, displayed |-> 0])
    /\ UNCHANGED <<realImages, loadedImagesCount, imageConsole>>

RECURSIVE SumDisplayed(_, _)
SumDisplayed(px, n) == IF n = 0 THEN 0 ELSE px[n].displayed + SumDisplayed(px, n - 1)

\* The number of display() calls made on the proxies so far.
TotalDisplayed(px) == SumDisplayed(px, Len(px))

\* proxies[p].display()
ProxyDisplay(p) ==
    /\ TotalDisplayed(proxies) < MaxDisplays
    /\ LET out == proxyDisplay(imageHeap, proxies, p)
       IN /\ proxies' = out.proxies
          /\ realImages' = out.heap.realImages
          /\ loadedImagesCount' = out.heap.loadedImagesCount
          /\ imageConsole' = out.heap.imageConsole

\* new RealImage(filename), called by the client itself.
NewRealImage(filename) ==
    /\ Cardinality({i \in 1..Len(realImages) : realImages[i].by = "client"}) < MaxDirect
    /\ LET h == RealImageNew(imageHeap, filename, "client")
       IN /\ realImages' = h.realImages
          /\ loadedImagesCount' = h.loadedImagesCount
          /\ imageConsole' = h.imageConsole
    /\ UNCHANGED proxies

ViewerNewProxy ==
    /\ \E filename \in Filenames : NewImageProxy(filename)
    /\ UNCHANGED <<compositeVars, flyweightVars, facadeVars>>

ViewerDisplay ==
    /\ \E p \in 1..Len(proxies) : ProxyDisplay(p)
    /\ UNCHANGED <<compositeVars, flyweightVars, facadeVars>>

ViewerNewRealImage ==
    /\ \E filename \in Filenames : NewRealImage(filename)
    /\ UNCHANGED <<compositeVars, flyweightVars, facadeVars>>

ProxyNext == ViewerNewProxy \/ ViewerDisplay \/ ViewerNewRealImage

ProxySpec == Init /\ [][ProxyNext]_vars

\* ---------------------------------------------------------------- game map
\* A string is the sequence of its pieces, so that a template literal is the
\* concatenation of its parts.

\* Most getTree calls the client makes.
MaxRequests == 5

\* The types and colors the client asks for.
TreeTypes == {<<"Oak">>, <<"Pine">>, <<"Oak", "_", "Dark">>}

TreeColors == {<<"Green">>, <<"Dark Green">>, <<"Dark", "_", "Green">>}

\* `${type}_${color}`
treeKey(type, color) == type \o <<"_">> \o color

\* Map.prototype.has
mapHas(map, key) == key \in DOMAIN map

\* Map.prototype.get; 0 stands for undefined.
mapGet(map, key) == IF key \in DOMAIN map THEN map[key] ELSE 0

\* A set() that stores nothing.
mapSetNothing(map, key, value) == map

\* Map.prototype.set
mapSet(map, key, value) ==
    [k \in DOMAIN map \cup {key} |-> IF k = key THEN value ELSE map[k]]

\* The factory's fields and the Tree objects, as one record.
treeFactory ==
    [trees |-> trees, uniqueCount |-> uniqueCount, treeObjects |-> treeObjects]

\* TreeFactory.getTree: the factory after the call, the Tree returned (its
\* place in treeObjects) and whether the call constructed it.
getTree(f, type, color) ==
    LET key == treeKey(type, color)
        fresh == ~mapHas(f.trees, key)
        newTree == Len(f.treeObjects) + 1
        f1 == IF fresh
              THEN [trees |-> mapSet(f.trees, key, newTree),
                    uniqueCount |-> f.uniqueCount + 1,
                    treeObjects |-> Append(f.treeObjects, [type |-> type, color |-> color])]
              ELSE f
    IN [factory |-> f1, tree |-> mapGet(f1.trees, key), isNew |-> fresh]

\* TreeFactory.getUniqueTreeCount
getUniqueTreeCount == uniqueCount

\* treeFactory.getTree(type, color)
GetTree(type, color) ==
    /\ requests < MaxRequests
    /\ LET out == getTree(treeFactory, type, color)
           pair == <<type, color>>
       IN /\ trees' = out.factory.trees
          /\ uniqueCount' = out.factory.uniqueCount
          /\ treeObjects' = out.factory.treeObjects
          /\ lastTree' = [type |-> type, color |-> color, tree |-> out.tree,
                          isNew |-> out.isNew, first |-> pair \notin DOMAIN requested]
          /\ requested' = IF pair \in DOMAIN requested THEN requested
                          ELSE [q \in DOMAIN requested \cup {pair} |->
                                   IF q = pair THEN out.tree ELSE requested[q]]
    /\ requests' = requests + 1

MapGetTree ==
    /\ \E type \in TreeTypes, color \in TreeColors : GetTree(type, color)
    /\ UNCHANGED <<compositeVars, proxyVars, facadeVars>>

FlyweightNext == MapGetTree

FlyweightSpec == Init /\ [][FlyweightNext]_vars

\* ------------------------------------------------------ file system facade
\* A console line is the sequence of the pieces its template concatenates.

\* Most facade calls the client makes.
MaxFacadeCalls == 3

\* The file names and contents the client passes.
FileNames == {"example.txt", "notes.txt"}

FileContents == {"Hello Facade Pattern!", ""}

\* File.create
fileCreate(fileName, content) ==
    <<"File \"", fileName, "\" created with content: \"", content, "\"">>

\* File.read
fileRead(fileName) == <<"Reading file \"", fileName, "\"...">>

\* File.delete
fileDelete(fileName) == <<"File \"", fileName, "\" deleted">>

\* Folder.createFolder
createFolder(folderName) == <<"Folder \"", folderName, "\" created">>

\* Permissions.setReadWrite
setReadWrite(fileName) == <<"Permissions set: \"", fileName, "\" is read-write">>

\* Backup.backupFile
backupFile(fileName) == <<"Backup created for file \"", fileName, "\"">>

\* FileSystemFacade.createFile: the lines it writes, in order.
createFile(fileName, content) ==
    << <<"- Creating file via Facade -">>,
       createFolder("DefaultFolder"),
       fileCreate(fileName, content),
       setReadWrite(fileName),
       backupFile(fileName),
       <<"File \"", fileName, "\" created successfully!\n">> >>

\* FileSystemFacade.readFile
readFile(fileName) ==
    << <<"- Reading file via Facade -">>,
       fileRead(fileName),
       <<"File \"", fileName, "\" read successfully!\n">> >>

\* FileSystemFacade.deleteFile
deleteFile(fileName) ==
    << <<"- Deleting file via Facade -">>,
       fileDelete(fileName),
       backupFile(fileName),
       <<"File \"", fileName, "\" deleted successfully!\n">> >>

\* One facade call: its lines go to the console.
FacadeCall(op, fileName, lines) ==
    /\ fsLastCall.number < MaxFacadeCalls
    /\ fsConsole' = fsConsole \o lines
    /\ fsLastCall' = [op |-> op, name |-> fileName, from |-> Len(fsConsole) + 1,
                      number |-> fsLastCall.number + 1]

FsCreateFile ==
    /\ \E fileName \in FileNames, content \in FileContents :
          FacadeCall("createFile", fileName, createFile(fileName, content))
    /\ UNCHANGED <<compositeVars, proxyVars, flyweightVars>>

FsReadFile ==
    /\ \E fileName \in FileNames : FacadeCall("readFile", fileName, readFile(fileName))
    /\ UNCHANGED <<compositeVars, proxyVars, flyweightVars>>

FsDeleteFile ==
    /\ \E fileName \in FileNames : FacadeCall("deleteFile", fileName, deleteFile(fileName))
    /\ UNCHANGED <<compositeVars, proxyVars, flyweightVars>>

FacadeNext == FsCreateFile \/ FsReadFile \/ FsDeleteFile

FacadeSpec == Init /\ [][FacadeNext]_vars

\* ------------------------------------------------- vocabulary of the claims

\* Whether x occurs in arr.
In(arr, x) == \E i \in 1..Len(arr) : arr[i] = x

\* The positions of arr that hold x.
Occurrences(arr, x) == {i \in 1..Len(arr) : arr[i] = x}

\* arr with position i taken out.
Without(arr, i) == [j \in 1..(Len(arr) - 1) |-> IF j < i THEN arr[j] ELSE arr[j + 1]]

\* The elements of arr.
Range(arr) == {arr[i] : i \in 1..Len(arr)}

RECURSIVE ReachFrom(_, _)
\* The least set of components that holds S and every child of a folder in it.
ReachFrom(ch, S) ==
    LET T == S \cup UNION {Range(ch[f]) : f \in S \cap Folders}
    IN IF T = S THEN S ELSE ReachFrom(ch, T)

\* r and everything below it.
Reach(ch, r) == ReachFrom(ch, {r})

\* The child entries <<folder, position>> of the folders in S.
Entries(ch, S) == UNION {{<<f, i>> : i \in 1..Len(ch[f])} : f \in S \cap Folders}

\* The structure below r is a tree: r is nobody's child in it and every other
\* component of it is held by exactly one child entry.
IsTree(ch, r) ==
    LET R == Reach(ch, r)
        E == Entries(ch, R)
    IN \A c \in R :
          Cardinality({e \in E : ch[e[1]][e[2]] = c}) <= (IF c = r THEN 0 ELSE 1)

RECURSIVE NodeAt(_, _, _)
\* The component a path of child positions leads to from r.
NodeAt(ch, r, p) == IF p = <<>> THEN r ELSE NodeAt(ch, ch[r][Head(p)], Tail(p))

RECURSIVE PathsFrom(_, _, _, _)
\* The paths of at most n more steps that extend the paths in P.
PathsFrom(ch, r, P, n) ==
    IF n = 0 \/ P = {} THEN P
    ELSE LET more == UNION {{Append(p, i) : i \in 1..Len(ch[NodeAt(ch, r, p)])} :
                              p \in {q \in P : NodeAt(ch, r, q) \in Folders}}
         IN P \cup PathsFrom(ch, r, more, n - 1)

\* Every path from r (an acyclic structure has none longer than the folders).
Paths(ch, r) == PathsFrom(ch, r, {<<>>}, Cardinality(Folders))

\* p comes before q in pre-order: p is a proper prefix of q, or p turns to an
\* earlier child where they part.
PreBefore(p, q) ==
    \/ Len(p) < Len(q) /\ \A j \in 1..Len(p) : p[j] = q[j]
    \/ \E k \in 1..Min(Len(p), Len(q)) :
          /\ p[k] < q[k]
          /\ \A j \in 1..(k - 1) : p[j] = q[j]

\* The paths of P in pre-order.
PreOrder(P) ==
    [k \in 1..Cardinality(P) |->
        CHOOSE p \in P : Cardinality({q \in P : PreBefore(q, p)}) = k - 1]

\* The line of component c at depth d: d units of two spaces, marker, name.
LineAt(c, d) ==
    [j \in 1..d |-> "  "] \o <<IF c \in Files THEN "- File: " ELSE "+ Folder: ", getName(c)>>

\* One line per path from r, in pre-order.
PreOrderLines(ch, r) ==
    LET order == PreOrder(Paths(ch, r))
    IN [k \in 1..Len(order) |-> LineAt(NodeAt(ch, r, order[k]), Len(order[k]))]

\* ------------------------------------------------------------------ claims

\* C1: for every tree of Folder and File nodes, display() on the root writes
\* exactly one line per node, in pre-order, and the line of a node at depth d
\* starts with exactly d units of two spaces.
C1_DisplayPreOrder ==
    (lastCall.op = "display" /\ IsTree(children, lastCall.folder)) =>
        /\ status = "ok"
        /\ Len(printed) = Cardinality(Reach(children, lastCall.folder))
        /\ printed = PreOrderLines(children, lastCall.folder)

\* A display of a tree of four nodes, two levels deep.
C1_Witness ==
    /\ lastCall.op = "display"
    /\ IsTree(children, lastCall.folder)
    /\ Len(printed) = 4
    /\ \E k \in 1..Len(printed) : Len(printed[k]) = 4

\* C2: remove(x) of a component that is not a child is a silent no-op: nothing
\* is thrown, every child array is unchanged, and display() writes what it
\* wrote before the call.
C2_RemoveAbsentNoOp ==
    (lastCall.op = "remove" /\ ~In(before[lastCall.folder], lastCall.component)) =>
        /\ status = "ok"
        /\ children = before
        /\ \A r \in Folders : displayRoot(children, r) = displayRoot(before, r)

\* remove of an absent component from a folder that has children.
C2_Witness ==
    /\ lastCall.op = "remove"
    /\ ~In(before[lastCall.folder], lastCall.component)
    /\ Len(before[lastCall.folder]) >= 2

\* C3: for x not in the child array, add(x) followed at once by remove(x)
\* leaves the child arrays as they were before the add.
C3_AddRemoveRoundTrip ==
    [][(/\ lastCall.op = "add"
        /\ ~In(before[lastCall.folder], lastCall.component)
        /\ lastCall'.op = "remove"
        /\ lastCall'.folder = lastCall.folder
        /\ lastCall'.component = lastCall.component)
       => children' = before]_vars

\* add(x) then remove(x) on a folder that held other children and not x.
C3_Witness ==
    /\ lastCall.op = "remove"
    /\ prevCall = [lastCall EXCEPT !.op = "add"]
    /\ ~In(children[lastCall.folder], lastCall.component)
    /\ Len(children[lastCall.folder]) >= 1

\* The lines display() on f writes for f's direct children.
DirectLines(ch, f) ==
    SelectSeq(displayRoot(ch, f).lines, LAMBDA l : Len(l) = 3)

\* C4: add(c) puts c at the end of the child array and changes no other
\* element, and display() visits a folder's children in the order they were
\* added, Files and Folders alike.
C4_AddAppendsInOrder ==
    /\ lastCall.op = "add" =>
          LET f == lastCall.folder
          IN /\ Len(children[f]) = Len(before[f]) + 1
             /\ children[f][Len(children[f])] = lastCall.component
             /\ \A i \in 1..Len(before[f]) : children[f][i] = before[f][i]
             /\ \A g \in Folders \ {f} : children[g] = before[g]
    /\ \A f \in Folders :
          LET out == displayRoot(children, f)
              visited == DirectLines(children, f)
          IN /\ Len(visited) <= Len(children[f])
             /\ \A k \in 1..Len(visited) : visited[k] = LineAt(children[f][k], 1)
             /\ out.ok => Len(visited) = Len(children[f])

\* A folder whose three children, a Folder among them, were added one by one.
C4_Witness ==
    /\ lastCall.op = "add"
    /\ Len(children[lastCall.folder]) = 3
    /\ Range(children[lastCall.folder]) \cap Folders # {}
    /\ Range(children[lastCall.folder]) \cap Files # {}
    /\ displayRoot(children, lastCall.folder).ok

\* C5: when x occurs in the child array, remove(x) deletes exactly its
\* lowest-index occurrence: the length drops by 1 and every other element
\* keeps its place in the order.
C5_RemoveFirstOccurrence ==
    (lastCall.op = "remove" /\ In(before[lastCall.folder], lastCall.component)) =>
        LET f == lastCall.folder
            i == CHOOSE j \in Occurrences(before[f], lastCall.component) :
                    \A k \in Occurrences(before[f], lastCall.component) : j <= k
        IN /\ status = "ok"
           /\ Len(children[f]) = Len(before[f]) - 1
           /\ children[f] = Without(before[f], i)
           /\ \A g \in Folders \ {f} : children[g] = before[g]

\* remove(x) from a folder that held x twice with another child in between.
C5_Witness ==
    /\ lastCall.op = "remove"
    /\ Cardinality(Occurrences(before[lastCall.folder], lastCall.component)) = 2
    /\ Len(before[lastCall.folder]) = 3
    /\ before[lastCall.folder][2] # lastCall.component

\* C6: after any sequence of add and remove calls every component is held by
\* at most one child entry and no folder is below itself: the structure is a
\* strict tree.
C6_StrictTree ==
    /\ \A c \in Components :
          Cardinality({e \in Entries(children, Folders) : children[e[1]][e[2]] = c}) <= 1
    /\ \A f \in Folders : f \notin ReachFrom(children, Range(children[f]))

\* C7: in every state add and remove calls lead to, display() returns after
\* finitely many lines and never throws.
C7_DisplayTotal == lastCall.op = "display" => status = "ok"

\* C8 as stated: remove(x) twice in a row leaves what remove(x) once left.
C8_RemoveIdempotent ==
    [][(lastCall.op = "remove" /\ lastCall' = lastCall) => children' = children]_vars

\* C8, amended: when x occurs at most once in the child array, remove(x)
\* twice in a row leaves what remove(x) once left.
C8_RemoveIdempotentSingle ==
    [][(/\ lastCall.op = "remove"
        /\ lastCall' = lastCall
        /\ Cardinality(Occurrences(before[lastCall.folder], lastCall.component)) <= 1)
       => children' = children]_vars

\* remove(x) called twice in a row on a folder that keeps another child.
C8_Witness ==
    /\ lastCall.op = "remove"
    /\ prevCall = lastCall
    /\ children = before
    /\ ~In(children[lastCall.folder], lastCall.component)
    /\ Len(children[lastCall.folder]) >= 1

\* Whether path p from r goes through child entry i of folder f.
Through(ch, r, p, f, i) ==
    \E n \in 0..(Len(p) - 1) : NodeAt(ch, r, SubSeq(p, 1, n)) = f /\ p[n + 1] = i

RECURSIVE KeepFrom(_, _, _)
\* The elements of seq at the positions in K, from position k on.
KeepFrom(seq, K, k) ==
    IF k > Len(seq) THEN <<>>
    ELSE (IF k \in K THEN <<seq[k]>> ELSE <<>>) \o KeepFrom(seq, K, k + 1)

\* What display() on r wrote over ch, less the lines written for child entry
\* i of folder f and for everything below that entry.
LinesLess(ch, r, f, i) ==
    LET order == PreOrder(Paths(ch, r))
        kept == {k \in 1..Len(order) : ~Through(ch, r, order[k], f, i)}
    IN KeepFrom(displayRoot(ch, r).lines, kept, 1)

\* The tree the client script builds.
DemoTree ==
    [f \in Folders |->
        CASE f = "rootFolder" -> <<"folder1", "folder2">>
          [] f = "folder1" -> <<"file1", "file2", "file4">>
          [] f = "folder2" -> <<"file3">>]

\* C9: after a folder removes a child x it held, display() on the root writes
\* what it wrote before less the lines of that occurrence of x (x's line and
\* the lines below it); every other line keeps content, indentation and
\* order. In the demo only the file4.txt line goes.
C9_RemoveOmitsLines ==
    (lastCall.op = "remove" /\ In(before[lastCall.folder], lastCall.component)) =>
        LET f == lastCall.folder
            i == CHOOSE j \in Occurrences(before[f], lastCall.component) :
                    \A k \in Occurrences(before[f], lastCall.component) : j <= k
        IN /\ \A r \in Folders :
                 displayRoot(before, r).ok =>
                    /\ displayRoot(children, r).ok
                    /\ displayRoot(children, r).lines = LinesLess(before, r, f, i)
           /\ (before = DemoTree /\ f = "folder1" /\ lastCall.component = "file4") =>
                 displayRoot(children, "rootFolder").lines =
                    << <<"+ Folder: ", "Root">>,
                       <<"  ", "+ Folder: ", "Documents">>,
                       <<"  ", "  ", "- File: ", "file1.txt">>,
                       <<"  ", "  ", "- File: ", "file2.txt">>,
                       <<"  ", "+ Folder: ", "Images">>,
                       <<"  ", "  ", "- File: ", "file3.txt">> >>

\* The demo's folder1.remove(file4) on the tree the script built.
C9_Witness ==
    /\ lastCall = [op |-> "remove", folder |-> "folder1", component |-> "file4"]
    /\ before = DemoTree
    /\ children # before

\* C10: once the script has added Documents' three files, Images' file and
\* the two folders to Root in that order, display() on Root writes exactly
\* the seven lines of the demo.
C10_DemoOutput ==
    (/\ lastCall = [op |-> "display", folder |-> "rootFolder", component |-> "none"]
     /\ prevCall = [op |-> "add", folder |-> "rootFolder", component |-> "folder2"]) =>
        /\ status = "ok"
        /\ printed =
              << <<"+ Folder: ", "Root">>,
                 <<"  ", "+ Folder: ", "Documents">>,
                 <<"  ", "  ", "- File: ", "file1.txt">>,
                 <<"  ", "  ", "- File: ", "file2.txt">>,
                 <<"  ", "  ", "- File: ", "file4.txt">>,
                 <<"  ", "+ Folder: ", "Images">>,
                 <<"  ", "  ", "- File: ", "file3.txt">> >>

\* rootFolder.display() right after the script's last add.
C10_Witness ==
    /\ pc = Len(DemoScript)
    /\ lastCall = [op |-> "display", folder |-> "rootFolder", component |-> "none"]
    /\ prevCall = [op |-> "add", folder |-> "rootFolder", component |-> "folder2"]
    /\ Len(printed) = 7

\* C11: a Folder with no children, new or emptied by remove, displays exactly
\* one line, its header behind the indentation it was given; one line is one
\* display call, so no child display is called.
C11_EmptyFolderOneLine ==
    /\ (lastCall.op = "display" /\ children[lastCall.folder] = <<>>) =>
          /\ status = "ok"
          /\ printed = << <<"+ Folder: ", constructorName(lastCall.folder)>> >>
    /\ \A f \in Folders, d \in 0..2 :
          children[f] = <<>> =>
             display(children, f, [j \in 1..d |-> "  "], 1) =
                [lines |-> << [j \in 1..d |-> "  "] \o
                                 <<"+ Folder: ", constructorName(f)>> >>,
                 ok |-> TRUE]

\* display() on a nested folder right after a remove call left it empty.
C11_Witness ==
    /\ lastCall.op = "display"
    /\ children[lastCall.folder] = <<>>
    /\ prevCall = [op |-> "remove", folder |-> lastCall.folder, component |-> "file1"]
    /\ \E g \in Folders : In(children[g], lastCall.folder)

\* C12: display() changes no state but the console: the name and the child
\* array of every folder and the name of every file are what they were; and
\* no call at all changes the name of a File.
C12_DisplayChangesNothing ==
    [][/\ lastCall'.op = "display" => (children' = children /\ name' = name)
       /\ \A c \in Files : name'[c] = name[c]]_vars

\* A display() that printed a folder, its sub-folder and a file.
C12_Witness ==
    /\ lastCall.op = "display"
    /\ status = "ok"
    /\ Len(printed) >= 3
    /\ \E k \in 1..Len(printed) : Len(printed[k]) = 4

\* The console entries with the given first piece written by RealImage ref.
EntriesOf(ref, piece) ==
    {k \in 1..Len(imageConsole) :
        imageConsole[k].image = ref /\ imageConsole[k].text[1] = piece}

\* What C13 says of a state.
C13_State ==
    /\ \A p \in 1..Len(proxies) :
          IF proxies[p].displayed = 0
          THEN proxies[p].realImage = 0
          ELSE LET ref == proxies[p].realImage
               IN /\ ref \in 1..Len(realImages)
                  /\ realImages[ref].filename = proxies[p].filename
                  /\ Cardinality(EntriesOf(ref, "Loading image: ")) = 1
                  /\ Cardinality(EntriesOf(ref, "Displaying image: ")) = proxies[p].displayed
                  /\ \A l \in EntriesOf(ref, "Loading image: "),
                        d \in EntriesOf(ref, "Displaying image: ") : l < d
    /\ \A p, q \in 1..Len(proxies) :
          (p # q /\ proxies[p].realImage # 0) => proxies[p].realImage # proxies[q].realImage
    /\ \A i \in 1..Len(realImages) :
          realImages[i].by = "proxy" => \E p \in 1..Len(proxies) : proxies[p].realImage = i

\* What C13 says of a step.
C13_Step ==
    /\ \A p \in 1..Len(proxies) :
          proxies[p].realImage # 0 => proxies'[p].realImage = proxies[p].realImage
    /\ Len(proxies') > Len(proxies) =>
          /\ imageConsole' = imageConsole
          /\ realImages' = realImages
          /\ proxies'[Len(proxies')].realImage = 0

\* C13: each ImageProxy loads its RealImage at most once, during its first
\* display() and before that call's "Displaying image" line; every later
\* display() uses the same RealImage and loads nothing; constructing a proxy
\* loads nothing.
C13_LazyLoadOnce == []C13_State /\ [][C13_Step]_vars

\* One proxy displayed twice while another has not been displayed yet.
C13_Witness ==
    \E p, q \in 1..Len(proxies) :
       /\ proxies[p].displayed = 2
       /\ proxies[q].displayed = 0
       /\ Len(imageConsole) = 3

\* C14: while every RealImage was created through a proxy, loadedImagesCount
\* is the number of proxies displayed at least once, whatever the number of
\* display() calls on each; and it never decreases.
C14_LoadedCount ==
    /\ [](( \A i \in 1..Len(realImages) : realImages[i].by = "proxy") =>
            loadedImagesCount =
               Cardinality({p \in 1..Len(proxies) : proxies[p].displayed >= 1}))
    /\ [][loadedImagesCount' >= loadedImagesCount]_vars

\* The demo: photo1 displayed twice, photo2 once, two images loaded.
C14_Witness ==
    /\ proxies = << [filename |-> "photo1.jpg", realImage |-> 1, displayed |-> 2],
                    [filename |-> "photo2.jpg", realImage |-> 2, displayed |-> 1] >>
    /\ loadedImagesCount = 2
    /\ [k \in 1..Len(imageConsole) |-> imageConsole[k].text] =
          << <<"Loading image: ", "photo1.jpg">>,
             <<"Displaying image: ", "photo1.jpg">>,
             <<"Displaying image: ", "photo1.jpg">>,
             <<"Loading image: ", "photo2.jpg">>,
             <<"Displaying image: ", "photo2.jpg">> >>

\* The Tree objects that existed when the last getTree call started.
TreesBefore ==
    SubSeq(treeObjects, 1, Len(treeObjects) - (IF lastTree.isNew THEN 1 ELSE 0))

\* C15: getTree returns the existing Tree when one exists for the requested
\* type and color and otherwise constructs a new one; two calls with the same
\* type and color return the identical object, and a Tree is constructed only
\* on the first request for a type and color.
C15_ReuseOrCreate ==
    lastTree.tree # 0 =>
        LET existing == {i \in 1..Len(TreesBefore) :
                            /\ TreesBefore[i].type = lastTree.type
                            /\ TreesBefore[i].color = lastTree.color}
        IN /\ existing # {} => (~lastTree.isNew /\ lastTree.tree \in existing)
           /\ existing = {} => (lastTree.isNew /\ lastTree.tree = Len(treeObjects))
           /\ lastTree.tree = requested[<<lastTree.type, lastTree.color>>]
           /\ lastTree.isNew => lastTree.first

\* C16: the Tree getTree(type, color) returns has the requested type and color.
C16_ReturnedTreeMatches ==
    lastTree.tree # 0 =>
        /\ treeObjects[lastTree.tree].type = lastTree.type
        /\ treeObjects[lastTree.tree].color = lastTree.color

\* C17: getUniqueTreeCount() is the number of entries of the trees map and the
\* number of Tree objects constructed; it never decreases, and a call that
\* reuses a Tree leaves it unchanged.
C17_UniqueCount ==
    /\ [](/\ getUniqueTreeCount = Cardinality(DOMAIN trees)
          /\ getUniqueTreeCount = Len(treeObjects))
    /\ [][/\ uniqueCount' >= uniqueCount
          /\ (requests' > requests /\ ~lastTree'.isNew) => uniqueCount' = uniqueCount]_vars

\* The demo's five requests: Oak/Green and Pine/Dark Green created, then reused.
C17_Witness ==
    /\ requests = 5
    /\ getUniqueTreeCount = 2
    /\ DOMAIN requested = {<< <<"Oak">>, <<"Green">> >>, << <<"Pine">>, <<"Dark Green">> >>}
    /\ lastTree = [type |-> <<"Pine">>, color |-> <<"Dark Green">>, tree |-> 2,
                   isNew |-> FALSE, first |-> FALSE]

\* The console lines of the last facade call.
LastCallLines == SubSeq(fsConsole, fsLastCall.from, Len(fsConsole))

\* C18: in every deleteFile(name) call the Backup.backupFile(name) step comes
\* before the File.delete(name) step.
C18_BackupBeforeDelete ==
    fsLastCall.op = "deleteFile" =>
        \E b, d \in 1..Len(LastCallLines) :
           /\ LastCallLines[b] = <<"Backup created for file \"", fsLastCall.name, "\"">>
           /\ LastCallLines[d] = <<"File \"", fsLastCall.name, "\" deleted">>
           /\ b < d

=============================================================================
